---- MODULE Spec2Model ----
(***************************************************************************)
(* The filter-and-aggregate pipeline of the SATLE dashboard, as written    *)
(* twice in the repository: the inline script main_webapp.py and the       *)
(* refactored script satle_webapp.py.                                      *)
(*                                                                         *)
(* The dataset is a sequence of Records.  It is kept run-length encoded:   *)
(* an element [rec |-> r, n |-> k] stands for k consecutive rows equal to  *)
(* r, so that per-country counts can reach the program's threshold of      *)
(* 3000 rows.  A text value that the program prints and re-parses          *)
(* (organizationType) is a sequence of one-character strings.              *)
(***************************************************************************)
EXTENDS Integers, Sequences, FiniteSets, TLC

VARIABLES df, widgets, main, satle, main_pc, satle_pc, ref

vars == <<df, widgets, main, satle, main_pc, satle_pc, ref>>

-----------------------------------------------------------------------------
(* Bounds and input domains *)

MaxRuns == 2

THRESHOLD == 3000

OtherCountries == "Other countries"

SEP == <<" ", "-", " ">>

City == <<"C", "i", "t", "y">>
CivilSociety == <<"C", "i", "v", "i", "l", " ", "S", "o", "c", "i", "e", "t", "y">>
Intl == <<"I", "n", "t", "'", "l">>

\* run lengths: one row, one row short of the threshold, the threshold itself
Counts == {1, 2999, 3000}

Rec(o, c, r) == [organizationType |-> o, country |-> c, region |-> r]

\* the rows a dataset is drawn from: two actors of one country, one actor in two
\* countries, and a country whose own name is the bucket label
Records ==
    {Rec(City, "Ireland", "Europe"), Rec(CivilSociety, "Ireland", "Europe"),
     Rec(City, "France", "Europe"), Rec(Intl, OtherCountries, "Asia")}

Runs == [rec : Records, n : Counts]

\* the smaller row set used when a snapshot of an earlier pass is kept
ObsRuns ==
    {[rec |-> Rec(City, "Ireland", "Europe"), n |-> 3000],
     [rec |-> Rec(CivilSociety, "Ireland", "Europe"), n |-> 1],
     [rec |-> Rec(Intl, OtherCountries, "Asia"), n |-> 2999]}

RECURSIVE SeqsUpTo(_, _)
SeqsUpTo(S, k) ==
    IF k = 0 THEN {<<>>}
    ELSE LET shorter == SeqsUpTo(S, k - 1)
         IN  shorter \cup {Append(s, x) : s \in shorter, x \in S}

Datasets == SeqsUpTo(Runs, MaxRuns)
ObsDatasets == SeqsUpTo(ObsRuns, MaxRuns)

-----------------------------------------------------------------------------
(* Python values bound to the name `actor` of the inline script: the list  *)
(* a multiselect returns, or the str the label loop leaves behind.         *)

PyList(S) == [type |-> "list", val |-> S]
PyStr(s) == [type |-> "str", val |-> s]

-----------------------------------------------------------------------------
(* Dataframe operations *)

RECURSIVE SumSeq(_)
SumSeq(s) == IF s = <<>> THEN 0 ELSE Head(s) + SumSeq(Tail(s))

\* number of rows of a frame
NRows(d) == SumSeq([i \in 1..Len(d) |-> d[i].n])

\* df[col] : the column, one entry per run
Col(d, col) == [i \in 1..Len(d) |-> d[i].rec[col]]

\* Series.unique(): the distinct values in first-seen order
RECURSIVE unique(_)
unique(s) ==
    IF s = <<>> THEN <<>>
    ELSE LET u == unique(SubSeq(s, 1, Len(s) - 1))
             x == s[Len(s)]
         IN  IF \E i \in 1..Len(u) : u[i] = x THEN u ELSE Append(u, x)

\* variant: Series.count() in place of nunique()
nuniqueAsCount(s) == Len(s)

\* Series.nunique(): the number of distinct values
nunique(s) == Len(unique(s))

\* variant: an empty list read as "no filter"
QueryEqEmptyIsAll(x, py) ==
    IF py.type = "list" THEN (py.val = {} \/ x \in py.val) ELSE x = py.val

\* `col == @name` inside DataFrame.query: membership for a list, equality for a scalar
QueryEq(x, py) == IF py.type = "list" THEN x \in py.val ELSE x = py.val

\* variant: the three constraints joined with | in place of &
MaskOr(d, actor, country, region) ==
    [i \in 1..Len(d) |->
        \/ d[i].rec.organizationType \in actor.val
        \/ d[i].rec.country \in country.val
        \/ d[i].rec.region \in region.val]

\* the row mask "organizationType == @actor & country == @country & region == @region"
Mask(d, actor, country, region) ==
    [i \in 1..Len(d) |->
        /\ QueryEq(d[i].rec.organizationType, actor)
        /\ QueryEq(d[i].rec.country, country)
        /\ QueryEq(d[i].rec.region, region)]

RECURSIVE BoolIndex(_, _)
BoolIndex(d, mask) ==
    IF d = <<>> THEN <<>>
    ELSE LET rest == BoolIndex(Tail(d), Tail(mask))
         IN  IF Head(mask) THEN <<Head(d)>> \o rest ELSE rest

\* DataFrame.query(...)
Query(d, actor, country, region) == BoolIndex(d, Mask(d, actor, country, region))

\* stable insertion of a (value, count) pair into a list sorted by descending count
RECURSIVE InsertDesc(_, _)
InsertDesc(s, p) ==
    IF s = <<>> THEN <<p>>
    ELSE IF Head(s)[2] >= p[2] THEN <<Head(s)>> \o InsertDesc(Tail(s), p)
    ELSE <<p>> \o s

RECURSIVE SortDesc(_)
SortDesc(s) == IF s = <<>> THEN <<>> ELSE InsertDesc(SortDesc(SubSeq(s, 1, Len(s) - 1)), s[Len(s)])

\* Series.value_counts(): (value, number of rows) pairs, most frequent first
value_counts(d, col) ==
    LET u == unique(Col(d, col))
        cnt(v) == SumSeq([i \in 1..Len(d) |-> IF d[i].rec[col] = v THEN d[i].n ELSE 0])
    IN  SortDesc([i \in 1..Len(u) |-> <<u[i], cnt(u[i])>>])

\* reset_index() followed by .columns = ['Type', 'Count']
reset_index(counts) == [i \in 1..Len(counts) |-> [Type |-> counts[i][1], Count |-> counts[i][2]]]

\* variant: rows under the threshold dropped in place of relabelled
RelabelDrop(t) == SelectSeq(t, LAMBDA row : row.Count >= THRESHOLD)

\* variant: <= in place of <
RelabelInclusive(t) ==
    [i \in 1..Len(t) |-> IF t[i].Count <= THRESHOLD THEN [t[i] EXCEPT !.Type = OtherCountries] ELSE t[i]]

\* country_df.loc[country_df['Count'] < 3000, 'Type'] = 'Other countries'
Relabel(t) ==
    [i \in 1..Len(t) |-> IF t[i].Count < THRESHOLD THEN [t[i] EXCEPT !.Type = OtherCountries] ELSE t[i]]

\* variant: the country rule copied onto the actor table
organization_dfRelabelled(sel) ==
    [i \in 1..Len(reset_index(value_counts(sel, "organizationType"))) |->
        LET row == reset_index(value_counts(sel, "organizationType"))[i]
        IN  IF row.Count < THRESHOLD
            THEN [row EXCEPT !.Type = <<"O", "t", "h", "e", "r", " ", "c", "o", "u", "n",
                                        "t", "r", "i", "e", "s">>]
            ELSE row]

organization_df(sel) == reset_index(value_counts(sel, "organizationType"))
country_df(sel) == Relabel(reset_index(value_counts(sel, "country")))
region_df(sel) == reset_index(value_counts(sel, "region"))

-----------------------------------------------------------------------------
(* Text operations *)

Has(s, c) == \E i \in 1..Len(s) : s[i] = c

FirstIndex(s, c) == CHOOSE i \in 1..Len(s) : s[i] = c /\ \A j \in 1..(i - 1) : s[j] # c

\* str.split(c) for a one-character separator
RECURSIVE Split(_, _)
Split(s, c) ==
    IF ~Has(s, c) THEN <<s>>
    ELSE LET i == FirstIndex(s, c)
         IN  <<SubSeq(s, 1, i - 1)>> \o Split(SubSeq(s, i + 1, Len(s)), c)

\* str.replace(c, "")
Remove(s, c) == SelectSeq(s, LAMBDA x : x # c)

RECURSIVE Concat(_)
Concat(parts) == IF parts = <<>> THEN <<>> ELSE Head(parts) \o Concat(Tail(parts))

\* sep.join(parts)
RECURSIVE Join(_, _)
Join(sep, parts) ==
    IF parts = <<>> THEN <<>>
    ELSE IF Len(parts) = 1 THEN parts[1]
    ELSE parts[1] \o sep \o Join(sep, Tail(parts))

\* repr() of a str: double quotes when it holds ' and no ", single quotes otherwise,
\* with \ and the enclosing quote escaped
Escape(s, q) ==
    Concat([i \in 1..Len(s) |-> IF s[i] = "\\" \/ s[i] = q THEN <<"\\", s[i]>> ELSE <<s[i]>>])

PyRepr(s) ==
    IF Has(s, "'") /\ ~Has(s, "\"")
    THEN <<"\"">> \o Escape(s, "\"") \o <<"\"">>
    ELSE <<"'">> \o Escape(s, "'") \o <<"'">>

\* str() of the object array that unique() returns: "[" reprs separated by one space "]"
ArrayStr(u) == <<"[">> \o Join(<<" ">>, [i \in 1..Len(u) |-> PyRepr(u[i])]) \o <<"]">>

\* str(...).split("[")  -- its element [1] is taken next
SplitOpen(sel) == Split(ArrayStr(unique(Col(sel, "organizationType"))), "[")

\* str(df_selection["organizationType"].unique()).split("[")[1].split("]")[0].split(' ')
current_actor(sel) == Split(Split(SplitOpen(sel)[2], "]")[1], " ")

\* variant: the join without the replace
RECURSIVE JoinLabelKeepQuotes(_)
JoinLabelKeepQuotes(cur) ==
    IF cur = <<>> THEN <<>>
    ELSE IF Len(cur) = 1 THEN cur[1]
    ELSE cur[1] \o <<" ", "-", " ">> \o JoinLabelKeepQuotes(Tail(cur))

\* satle_webapp.py: ' - '.join(actor.replace("'", "") for actor in current_actor)
JoinLabel(cur) == Join(SEP, [i \in 1..Len(cur) |-> Remove(cur[i], "'")])

\* variant: the last-element test off by one (idx == len(current_actor)), never true
RECURSIVE LoopLabelOffByOne(_, _, _)
LoopLabelOffByOne(cur, idx, acc) ==
    IF idx > Len(cur) THEN acc
    ELSE LoopLabelOffByOne(cur, idx + 1, acc \o SelectSeq(cur[idx], LAMBDA x : x # "'") \o <<" ", "-", " ">>)

\* main_webapp.py: the index-based concatenation loop, from position idx on
RECURSIVE LoopLabel(_, _, _)
LoopLabel(cur, idx, acc) ==
    IF idx > Len(cur) THEN acc
    ELSE IF idx = Len(cur)
         THEN LoopLabel(cur, idx + 1, acc \o Remove(cur[idx], "'"))
         ELSE LoopLabel(cur, idx + 1, acc \o Remove(cur[idx], "'") \o SEP)

-----------------------------------------------------------------------------
(* State *)

Unset == [type |-> "unset"]

\* a script's names before it has run
Fresh ==
    [df_selection |-> <<>>, new_actor |-> <<>>, unique_countries |-> 0, unique_regions |-> 0,
     organization_df |-> <<>>, country_df |-> <<>>, region_df |-> <<>>]

FreshMain ==
    [actor |-> Unset, country |-> Unset, region |-> Unset, current_actor |-> <<>>, out |-> Fresh]

\* options=df[col].unique() of the three multiselects
Options(d) ==
    [actor |-> {d[i].rec.organizationType : i \in 1..Len(d)},
     country |-> {d[i].rec.country : i \in 1..Len(d)},
     region |-> {d[i].rec.region : i \in 1..Len(d)}]

\* observer: no earlier pass recorded
NoRef == [set |-> FALSE]

\* the state once the page is first opened: every multiselect at its default
Start(d) ==
    /\ df = d
    /\ widgets = Options(d)
    /\ main = FreshMain
    /\ satle = Fresh
    /\ main_pc = "rerun"
    /\ satle_pc = "rerun"
    /\ ref = NoRef

Init == \E d \in Datasets : Start(d)

\* what one recomputation pass derives from a filtered view, given its label
Derived(sel, label) ==
    [df_selection |-> sel, new_actor |-> label,
     unique_countries |-> nunique(Col(sel, "country")),
     unique_regions |-> nunique(Col(sel, "region")),
     organization_df |-> organization_df(sel),
     country_df |-> country_df(sel),
     region_df |-> region_df(sel)]

\* variant: the relabelling assignment writes through to the dataset's country column
RelabelDataset(d, sel) ==
    LET small(c) == SumSeq([i \in 1..Len(sel) |->
                        IF sel[i].rec.country = c THEN sel[i].n ELSE 0]) < THRESHOLD
    IN  [i \in 1..Len(d) |->
            IF small(d[i].rec.country) /\ (\E j \in 1..Len(sel) : sel[j] = d[i])
            THEN [d[i] EXCEPT !.rec.country = OtherCountries] ELSE d[i]]

MainScriptWritesDataset ==
    /\ main_pc = "rerun"
    /\ LET sel == Query(df, PyList(widgets.actor), PyList(widgets.country),
                        PyList(widgets.region))
           cur == current_actor(sel)
       IN  /\ main_pc' = "done"
           /\ main' = [actor |-> PyStr(cur[Len(cur)]), country |-> PyList(widgets.country),
                       region |-> PyList(widgets.region), current_actor |-> cur,
                       out |-> Derived(sel, LoopLabel(cur, 1, <<>>))]
           /\ df' = RelabelDataset(df, sel)
    /\ UNCHANGED <<widgets, satle, satle_pc, ref>>

\* one run of main_webapp.py, top to bottom; an IndexError at line 49 ends it
MainScript ==
    /\ main_pc = "rerun"
    /\ LET actor == PyList(widgets.actor)
           country == PyList(widgets.country)
           region == PyList(widgets.region)
           sel == Query(df, actor, country, region)
       IN  IF Len(SplitOpen(sel)) < 2
           THEN /\ main_pc' = "error"
                /\ main' = [main EXCEPT !.actor = actor, !.country = country,
                                        !.region = region, !.out.df_selection = sel]
           ELSE LET cur == current_actor(sel)
                IN  /\ main_pc' = "done"
                    /\ main' = [actor |-> PyStr(cur[Len(cur)]), country |-> country,
                                region |-> region, current_actor |-> cur,
                                out |-> Derived(sel, LoopLabel(cur, 1, <<>>))]
    /\ UNCHANGED <<df, widgets, satle, satle_pc, ref>>

\* one run of main() of satle_webapp.py; an IndexError at line 119 ends it
SatleMain ==
    /\ satle_pc = "rerun"
    /\ LET sel == Query(df, PyList(widgets.actor), PyList(widgets.country),
                        PyList(widgets.region))
       IN  IF Len(SplitOpen(sel)) < 2
           THEN /\ satle_pc' = "error"
                /\ satle' = [satle EXCEPT !.df_selection = sel]
           ELSE /\ satle_pc' = "done"
                /\ satle' = Derived(sel, JoinLabel(current_actor(sel)))
    /\ UNCHANGED <<df, widgets, main, main_pc, ref>>

Toggle(S, v) == IF v \in S THEN S \ {v} ELSE S \cup {v}

Idle == main_pc = "done" /\ satle_pc = "done"

\* observer: a Selection change happened after the recorded pass
Touch(r) == IF r.set THEN [r EXCEPT !.changed = TRUE] ELSE r

\* a widget change reruns both scripts, each in a new namespace
Rerun ==
    /\ main' = FreshMain
    /\ satle' = Fresh
    /\ main_pc' = "rerun"
    /\ satle_pc' = "rerun"
    /\ ref' = Touch(ref)
    /\ UNCHANGED df

\* the user adds or removes one value of the Actor multiselect
SelectActor ==
    /\ Idle
    /\ \E v \in Options(df).actor : widgets' = [widgets EXCEPT !.actor = Toggle(@, v)]
    /\ Rerun

SelectCountry ==
    /\ Idle
    /\ \E v \in Options(df).country : widgets' = [widgets EXCEPT !.country = Toggle(@, v)]
    /\ Rerun

SelectRegion ==
    /\ Idle
    /\ \E v \in Options(df).region : widgets' = [widgets EXCEPT !.region = Toggle(@, v)]
    /\ Rerun

Next == MainScript \/ SatleMain \/ SelectActor \/ SelectCountry \/ SelectRegion

Spec == Init /\ [][Next]_vars

\* observer: record the Selection and what both scripts derived from it
Observe ==
    /\ Idle
    /\ ~ref.set
    /\ ref' = [set |-> TRUE, changed |-> FALSE, sel |-> widgets,
               main |-> main.out, satle |-> satle]
    /\ UNCHANGED <<df, widgets, main, satle, main_pc, satle_pc>>

InitObs == \E d \in ObsDatasets : Start(d)

NextObs == Next \/ Observe

SpecObs == InitObs /\ [][NextObs]_vars

-----------------------------------------------------------------------------
(* Properties *)

\* the results of the passes that have completed for the current Selection
Passes ==
    (IF main_pc = "done" THEN {main.out} ELSE {})
        \cup (IF satle_pc = "done" THEN {satle} ELSE {})

Matches(r) ==
    /\ r.organizationType \in widgets.actor
    /\ r.country \in widgets.country
    /\ r.region \in widgets.region

\* number of rows of d equal to record r
RowsOf(d, r) == SumSeq([i \in 1..Len(d) |-> IF d[i].rec = r THEN d[i].n ELSE 0])

\* number of rows of d whose column col holds v
RowsWith(d, col, v) == SumSeq([i \in 1..Len(d) |-> IF d[i].rec[col] = v THEN d[i].n ELSE 0])

Values(d, col) == {d[i].rec[col] : i \in 1..Len(d)}

RECURSIVE SetSum(_, _)
SetSum(S, f) ==
    IF S = {} THEN 0
    ELSE LET x == CHOOSE y \in S : TRUE IN f[x] + SetSum(S \ {x}, f)

TableSum(t) == SumSeq([i \in 1..Len(t) |-> t[i].Count])

OtherRows(t) == {i \in 1..Len(t) : t[i].Type = OtherCountries}

OtherSum(t) == SumSeq([i \in 1..Len(t) |-> IF t[i].Type = OtherCountries THEN t[i].Count ELSE 0])

\* the sum of the pre-collapse counts that are strictly under the threshold
SmallTotal(v) ==
    LET rows(c) == RowsWith(v, "country", c)
        small == {c \in Values(v, "country") : rows(c) < THRESHOLD}
    IN  SetSum(small, [c \in small |-> rows(c)])

\* C1: the FilteredView holds exactly the Records of the Dataset that match the
\* Selection on all three columns: every run of the view is a run of the Dataset,
\* and each Record occurs in the view as often as in the Dataset when it matches,
\* and not at all when it does not.
C1_FilterExact ==
    \A o \in Passes :
        /\ \A i \in 1..Len(o.df_selection) : \E j \in 1..Len(df) : o.df_selection[i] = df[j]
        /\ \A r \in Records :
              RowsOf(o.df_selection, r) = (IF Matches(r) THEN RowsOf(df, r) ELSE 0)

\* a pass whose view is non-empty and that left out a Record matching on actor and
\* country but not on region
C1_Witness ==
    /\ Idle
    /\ main.out.df_selection # <<>>
    /\ \E j \in 1..Len(df) :
          /\ df[j].rec.organizationType \in widgets.actor
          /\ df[j].rec.country \in widgets.country
          /\ df[j].rec.region \notin widgets.region

\* C2: when one of the three Selection sets is empty the FilteredView is empty.
C2_EmptyDimension ==
    \A o \in Passes :
        (widgets.actor = {} \/ widgets.country = {} \/ widgets.region = {})
            => o.df_selection = <<>>

\* both passes done on a non-empty Dataset with no country chosen and the other two
\* multiselects left full
C2_Witness ==
    /\ Idle
    /\ df # <<>>
    /\ widgets.country = {}
    /\ widgets.actor = Options(df).actor
    /\ widgets.region = Options(df).region
    /\ satle.df_selection = <<>>

\* C3: the counts of each of the three tables (the country table after the
\* relabelling) sum to the number of rows of the FilteredView.
C3_CountsSumToView ==
    \A o \in Passes :
        /\ TableSum(o.organization_df) = NRows(o.df_selection)
        /\ TableSum(o.country_df) = NRows(o.df_selection)
        /\ TableSum(o.region_df) = NRows(o.df_selection)

\* a view of two runs whose country table holds a relabelled row and a kept row
C3_Witness ==
    /\ Idle
    /\ Len(satle.df_selection) >= 2
    /\ \E i, j \in 1..Len(satle.country_df) :
          /\ satle.country_df[i].Count < THRESHOLD
          /\ satle.country_df[j].Count >= THRESHOLD

\* C4 as stated: the country table has at most one entry labelled "Other countries",
\* and its count is the sum of the pre-collapse counts under 3000.
C4_SingleBucket ==
    \A o \in Passes :
        /\ Cardinality(OtherRows(o.country_df)) <= 1
        /\ \A i \in OtherRows(o.country_df) :
              o.country_df[i].Count = SmallTotal(o.df_selection)

\* C4 amended: every country value under the threshold keeps a row of its own,
\* relabelled "Other countries"; the entries with that label are as many as the
\* country values that are under the threshold or are named "Other countries"
\* themselves, and their counts sum to the counts of those values.
C4_RelabelledRows ==
    \A o \in Passes :
        LET v == o.df_selection
            rows(c) == RowsWith(v, "country", c)
            bucket == {c \in Values(v, "country") : rows(c) < THRESHOLD \/ c = OtherCountries}
        IN  /\ Cardinality(OtherRows(o.country_df)) = Cardinality(bucket)
            /\ OtherSum(o.country_df) = SetSum(bucket, [c \in bucket |-> rows(c)])
            /\ \A i \in OtherRows(o.country_df) :
                  \E c \in bucket : o.country_df[i].Count = rows(c)

\* a country table with two entries labelled "Other countries"
C4_Witness ==
    /\ Idle
    /\ Cardinality(OtherRows(main.out.country_df)) >= 2

\* C5: in the country table every entry not labelled "Other countries" counts 3000
\* or more, every country value with 3000 rows or more has its own entry with its
\* own count, and the actor and region tables list every value under its own label
\* with its own count.
C5_ThresholdAndNoRelabelElsewhere ==
    \A o \in Passes :
        LET v == o.df_selection
            own(t, col) ==
                /\ Len(t) = Cardinality(Values(v, col))
                /\ \A x \in Values(v, col) :
                      \E i \in 1..Len(t) : t[i] = [Type |-> x, Count |-> RowsWith(v, col, x)]
        IN  /\ \A i \in 1..Len(o.country_df) :
                  o.country_df[i].Type # OtherCountries => o.country_df[i].Count >= THRESHOLD
            /\ \A c \in Values(v, "country") :
                  RowsWith(v, "country", c) >= THRESHOLD =>
                      \E i \in 1..Len(o.country_df) :
                          o.country_df[i] = [Type |-> c, Count |-> RowsWith(v, "country", c)]
            /\ own(o.organization_df, "organizationType")
            /\ own(o.region_df, "region")

\* a country kept under its own name next to a relabelled one, and an actor entry
\* under 3000
C5_Witness ==
    /\ Idle
    /\ \E i, j \in 1..Len(main.out.country_df) :
          /\ main.out.country_df[i].Type = "Ireland"
          /\ main.out.country_df[j].Type = OtherCountries
    /\ \E i \in 1..Len(main.out.organization_df) :
          main.out.organization_df[i].Count < THRESHOLD

\* C6 as stated: the displayed actor label is the distinct organizationType values
\* of the view, in first-seen order, joined with " - ".
C6_LabelIsDirectJoin ==
    \A o \in Passes :
        o.new_actor = Join(SEP, unique(Col(o.df_selection, "organizationType")))

\* C7: the displayed country and region counts are the numbers of distinct country
\* and region values among the Records of the view.
C7_DistinctCounts ==
    \A o \in Passes :
        /\ o.unique_countries = Cardinality(Values(o.df_selection, "country"))
        /\ o.unique_regions = Cardinality(Values(o.df_selection, "region"))

\* a view of two runs that share their country
C7_Witness ==
    /\ Idle
    /\ Len(main.out.df_selection) = 2
    /\ main.out.unique_countries = 1

\* C8: no pass ends in an error, and a pass over an empty view yields the empty
\* label, zero for both counts and three empty tables.
C8_EmptyViewDegrades ==
    /\ main_pc # "error"
    /\ satle_pc # "error"
    /\ \A o \in Passes :
          o.df_selection = <<>> =>
              /\ o.new_actor = <<>>
              /\ o.unique_countries = 0
              /\ o.unique_regions = 0
              /\ o.organization_df = <<>>
              /\ o.country_df = <<>>
              /\ o.region_df = <<>>

\* both passes done over an empty view of a non-empty Dataset
C8_Witness ==
    /\ Idle
    /\ df # <<>>
    /\ main.out.df_selection = <<>>
    /\ satle.df_selection = <<>>

\* C9: a pass run with the Selection of a recorded earlier pass yields the recorded
\* view, tables and summary scalars, whatever Selections came between.
C9_SameSelectionSameResult ==
    (Idle /\ ref.set /\ ref.sel = widgets) =>
        /\ main.out = ref.main
        /\ satle = ref.satle

\* a non-default Selection left and come back to, with a non-empty view
C9_Witness ==
    /\ Idle
    /\ ref.set
    /\ ref.changed
    /\ ref.sel = widgets
    /\ widgets # Options(df)
    /\ satle.df_selection # <<>>

\* C10: for one Dataset and one Selection the two scripts derive the same view, the
\* same three tables, the same label and the same two counts.
C10_ScriptsAgree ==
    Idle => main.out = satle

\* both scripts done over a view with two distinct actors
C10_Witness ==
    /\ Idle
    /\ Cardinality(Values(main.out.df_selection, "organizationType")) >= 2
    /\ Len(main.current_actor) >= 2

====
